---- MODULE Spec2Model ----
(***************************************************************************)
(* ccat: syntax resolution and line-by-line highlighting.                  *)
(*                                                                         *)
(* Three entry points are modelled: the library calls                      *)
(* SyntaxHighlighter::highlight_content and highlight_file                 *)
(* (src/src/lib.rs) and the command line program main (src/src/main.rs).   *)
(* highlight_file and main first read the file at the path.  Then one run  *)
(* is: look the theme up, resolve the grammar, create the highlighter (its *)
(* parse state), then tokenize and render the lines of the content one at  *)
(* a time.                                                                 *)
(*                                                                         *)
(* A content is a sequence of chunks (short pieces of text); a path and a   *)
(* file extension are sequences of characters.  An Option<T> is a sequence *)
(* of length 0 (None) or 1 (Some).                                         *)
(***************************************************************************)
EXTENDS Integers, Sequences, FiniteSets, TLC

VARIABLES
    prog,        \* "lib" (highlight_content), "file" (highlight_file) or "main"
    file,        \* what the file system holds at file_path
    content,     \* the text to highlight
    file_path,   \* the path the extension is taken from
    config,      \* HighlighterConfig / Args: theme, show_line_numbers, force_syntax
    pc,          \* position: idle, exists, read, theme, syntax, new, loop, done
    theme,       \* Option: the theme found in the theme set
    syntax,      \* Option: the grammar resolved
    h,           \* Option: the parse state held by HighlightLines
    line_num,    \* enumerate() index of the next line (0-based)
    result,      \* lib: the String being built
    stdout,      \* main: what print! has written
    ret,         \* the Result returned to the caller
    created,     \* number of HighlightLines::new calls in this run
    calls        \* number of highlight_line calls in this run

vars == <<prog, file, content, file_path, config, pc, theme, syntax, h, line_num,
          result, stdout, ret, created, calls>>

\* Longest content, in chunks.
MaxLen == 2

None == <<>>
Some(x) == <<x>>
IsSome(o) == Len(o) = 1
Unwrap(o) == o[1]
OrElse(o, alt) == IF IsSome(o) THEN o ELSE alt
UnwrapOrElse(o, alt) == IF IsSome(o) THEN o[1] ELSE alt

(***************************************************************************)
(* Text.                                                                   *)
(***************************************************************************)
Shebang == "#!/usr/bin/python"
Newline == "\n"
Chunks == {Shebang, " x", Newline}

RECURSIVE SeqsUpTo(_, _)
SeqsUpTo(S, n) ==
    IF n = 0 THEN {<<>>}
    ELSE LET shorter == SeqsUpTo(S, n - 1)
         IN  shorter \cup {Append(s, c) : s \in {t \in shorter : Len(t) = n - 1}, c \in S}

Contents == SeqsUpTo(Chunks, MaxLen)

\* Index of the first newline of s, or Len(s) when it has none.
LineEnd(s) ==
    LET nl == {i \in 1..Len(s) : s[i] = Newline}
    IN  IF nl = {} THEN Len(s) ELSE CHOOSE i \in nl : \A j \in nl : i <= j

\* syntect::util::LinesWithEndings: the lines of s, each keeping its ending.
RECURSIVE LinesWithEndings(_)
LinesWithEndings(s) ==
    IF s = <<>> THEN <<>>
    ELSE LET k == LineEnd(s)
         IN  <<SubSeq(s, 1, k)>> \o LinesWithEndings(SubSeq(s, k + 1, Len(s)))

\* ASCII letters, and str::eq_ignore_ascii_case on sequences of characters.
Upper == <<"A", "B", "C", "D", "E", "F", "G", "H", "I", "J", "K", "L", "M",
           "N", "O", "P", "Q", "R", "S", "T", "U", "V", "W", "X", "Y", "Z">>
Lower == <<"a", "b", "c", "d", "e", "f", "g", "h", "i", "j", "k", "l", "m",
           "n", "o", "p", "q", "r", "s", "t", "u", "v", "w", "x", "y", "z">>
ToLowerChar(c) ==
    IF \E i \in 1..Len(Upper) : Upper[i] = c
    THEN Lower[CHOOSE i \in 1..Len(Upper) : Upper[i] = c]
    ELSE c
ToLower(s) == [i \in 1..Len(s) |-> ToLowerChar(s[i])]
EqIgnoreAsciiCase(a, b) == ToLower(a) = ToLower(b)

(***************************************************************************)
(* Paths: std::path::Path::file_name and Path::extension (Unix).           *)
(***************************************************************************)
Slash == "/"
Dot == "."

\* Index of the last c in s, or 0.
LastIndexOf(s, c) ==
    LET at == {i \in 1..Len(s) : s[i] = c}
    IN  IF at = {} THEN 0 ELSE CHOOSE i \in at : \A j \in at : j <= i

\* Path::file_name: the last component when it is a normal one.  Trailing
\* separators and trailing "." components are skipped; there is no file name
\* when the path ends in "..", or holds nothing but "/" and ".".
RECURSIVE FileName(_)
FileName(p) ==
    IF p = <<>> THEN None
    ELSE LET k == LastIndexOf(p, Slash)
             last == SubSeq(p, k + 1, Len(p))
             rest == SubSeq(p, 1, k - 1)
         IN  IF last = <<>> \/ last = <<Dot>> THEN FileName(rest)
             ELSE IF last = <<Dot, Dot>> THEN None
             ELSE Some(last)

\* Path::extension: None without a file name, without a "." in it, or when
\* its only "." is the first character; else the part after the last ".".
PathExtension(p) ==
    IF ~IsSome(FileName(p)) THEN None
    ELSE LET fn == Unwrap(FileName(p))
             k == LastIndexOf(fn, Dot)
         IN  IF k <= 1 THEN None ELSE Some(SubSeq(fn, k + 1, Len(fn)))

\* .extension().and_then(|ext| ext.to_str()).unwrap_or("")
Extension(p) == UnwrapOrElse(PathExtension(p), <<>>)

(***************************************************************************)
(* The catalog: SyntaxSet::load_defaults_newlines() and                    *)
(* ThemeSet::load_defaults().  The grammars are listed in load order with  *)
(* the file extensions and first-line markers that the paths and contents  *)
(* of the model can hit.                                                   *)
(***************************************************************************)
Grammar(n, exts, first) == [name |-> n, file_extensions |-> exts, first_line |-> first]

syntax_set == <<
    Grammar("Plain Text", {<<"t", "x", "t">>}, {}),
    Grammar("C#", {<<"c", "s">>}, {}),
    Grammar("C++", {<<"c", "p", "p">>, <<"c", "c">>, <<"c", "x", "x">>, <<"h">>, <<"h", "p", "p">>, <<"h", "x", "x">>}, {}),
    Grammar("C", {<<"c">>, <<"h">>}, {}),
    Grammar("CSS", {<<"c", "s", "s">>}, {}),
    Grammar("Go", {<<"g", "o">>}, {}),
    Grammar("HTML", {<<"h", "t", "m", "l">>}, {}),
    Grammar("Java", {<<"j", "a", "v", "a">>}, {}),
    Grammar("JSON", {<<"j", "s", "o", "n">>}, {}),
    Grammar("JavaScript", {<<"j", "s">>}, {}),
    Grammar("Lua", {<<"l", "u", "a">>}, {}),
    Grammar("Markdown", {<<"m", "d">>}, {}),
    Grammar("Objective-C++", {<<"m", "m">>, <<"M">>, <<"h">>}, {}),
    Grammar("Objective-C", {<<"m">>, <<"h">>}, {}),
    Grammar("PHP", {<<"p", "h", "p">>}, {}),
    Grammar("Python", {<<"p", "y">>}, {Shebang}),
    Grammar("R", {<<"R">>, <<"r">>}, {}),
    Grammar("Ruby", {<<"r", "b">>}, {}),
    Grammar("Rust", {<<"r", "s">>}, {}),
    Grammar("SQL", {<<"s", "q", "l">>}, {}),
    Grammar("Bourne Again Shell (bash)", {<<"s", "h">>, <<"b", "a", "s", "h">>, <<"z", "s", "h">>}, {}),
    Grammar("XML", {<<"x", "m", "l">>}, {}),
    Grammar("YAML", {<<"y", "a", "m", "l">>, <<"y", "m", "l">>}, {}) >>

theme_set == {"InspiredGitHub", "Solarized (dark)", "Solarized (light)",
              "base16-eighties.dark", "base16-mocha.dark", "base16-ocean.dark",
              "base16-ocean.light"}

SyntaxNames == {syntax_set[i].name : i \in 1..Len(syntax_set)}

\* iter().rev().find(..): the name of the last grammar among the indices hit.
RevFind(hit) ==
    IF hit = {} THEN None
    ELSE Some(syntax_set[CHOOSE i \in hit : \A j \in hit : j <= i].name)

find_syntax_by_name(name) ==
    RevFind({i \in 1..Len(syntax_set) : syntax_set[i].name = name})

find_syntax_by_extension(extension) ==
    RevFind({i \in 1..Len(syntax_set) :
                \E e \in syntax_set[i].file_extensions : EqIgnoreAsciiCase(e, extension)})

\* The whole text is searched, and the "^" of a first-line pattern matches at
\* the start of any line of it (the engine's default regex backend).
find_syntax_by_first_line(text) ==
    RevFind({i \in 1..Len(syntax_set) :
                \E k \in 1..Len(text) :
                    /\ k = 1 \/ text[k - 1] = Newline
                    /\ text[k] \in syntax_set[i].first_line})

find_syntax_plain_text == "Plain Text"

themes_get(name) == IF name \in theme_set THEN Some(name) ELSE None

(***************************************************************************)
(* lib.rs: the override table and the resolution cascade.                  *)
(***************************************************************************)
get_custom_mappings ==
    (<<"c">> :> "C") @@
    (<<"h">> :> "C") @@
    (<<"c", "p", "p">> :> "C++") @@
    (<<"c", "x", "x">> :> "C++") @@
    (<<"c", "c">> :> "C++") @@
    (<<"h", "p", "p">> :> "C++") @@
    (<<"h", "x", "x">> :> "C++") @@
    (<<"j", "a", "v", "a">> :> "Java") @@
    (<<"p", "y">> :> "Python") @@
    (<<"j", "s">> :> "JavaScript") @@
    (<<"t", "s">> :> "TypeScript") @@
    (<<"r", "s">> :> "Rust") @@
    (<<"g", "o">> :> "Go") @@
    (<<"p", "h", "p">> :> "PHP") @@
    (<<"r", "b">> :> "Ruby") @@
    (<<"c", "s">> :> "C#") @@
    (<<"h", "t", "m", "l">> :> "HTML") @@
    (<<"c", "s", "s">> :> "CSS") @@
    (<<"x", "m", "l">> :> "XML") @@
    (<<"j", "s", "o", "n">> :> "JSON") @@
    (<<"y", "a", "m", "l">> :> "YAML") @@
    (<<"y", "m", "l">> :> "YAML") @@
    (<<"m", "d">> :> "Markdown") @@
    (<<"s", "h">> :> "Bash") @@
    (<<"b", "a", "s", "h">> :> "Bash") @@
    (<<"z", "s", "h">> :> "Bash") @@
    (<<"f", "i", "s", "h">> :> "Fish") @@
    (<<"p", "s", "1">> :> "PowerShell") @@
    (<<"s", "q", "l">> :> "SQL") @@
    (<<"r">> :> "R") @@
    (<<"R">> :> "R") @@
    (<<"l", "u", "a">> :> "Lua") @@
    (<<"v", "i", "m">> :> "VimL") @@
    (<<"d", "o", "c", "k", "e", "r", "f", "i", "l", "e">> :> "Dockerfile") @@
    (<<"t", "o", "m", "l">> :> "TOML") @@
    (<<"i", "n", "i">> :> "INI") @@
    (<<"c", "f", "g">> :> "INI") @@
    (<<"c", "o", "n", "f">> :> "INI")

custom_mappings_get(extension) ==
    IF extension \in DOMAIN get_custom_mappings
    THEN Some(get_custom_mappings[extension]) ELSE None

\* The tail of the cascade: engine extension table, first line, plain text.
EngineCascade(text, extension) ==
    UnwrapOrElse(
        OrElse(find_syntax_by_extension(extension), find_syntax_by_first_line(text)),
        find_syntax_plain_text)

\* Plausible slips of detect_syntax, used to test the properties below.
detect_syntax_no_fallback(text, path) ==
    LET extension == Extension(path)
        mapped == custom_mappings_get(extension)
        byName == IF IsSome(mapped) THEN find_syntax_by_name(Unwrap(mapped)) ELSE None
    IN  IF IsSome(byName) THEN Unwrap(byName)
        ELSE UnwrapOrElse(
                OrElse(find_syntax_by_extension(extension), find_syntax_by_first_line(text)),
                "<no syntax>")

\* The cascade with the extension lower-cased first (spec, section 4.2 step 2).
detect_syntax_lowercased(text, path) ==
    LET extension == ToLower(Extension(path))
        mapped == custom_mappings_get(extension)
        byName == IF IsSome(mapped) THEN find_syntax_by_name(Unwrap(mapped)) ELSE None
    IN  IF IsSome(byName) THEN Unwrap(byName) ELSE EngineCascade(text, extension)

detect_syntax_first_line_first(text, path) ==
    LET extension == Extension(path)
        mapped == custom_mappings_get(extension)
        byName == IF IsSome(mapped) THEN find_syntax_by_name(Unwrap(mapped)) ELSE None
    IN  IF IsSome(byName) THEN Unwrap(byName)
        ELSE UnwrapOrElse(
                OrElse(find_syntax_by_first_line(text), find_syntax_by_extension(extension)),
                find_syntax_plain_text)

detect_syntax(text, path) ==
    LET extension == Extension(path)
        mapped == custom_mappings_get(extension)
        byName == IF IsSome(mapped) THEN find_syntax_by_name(Unwrap(mapped)) ELSE None
    IN  IF IsSome(byName) THEN Unwrap(byName) ELSE EngineCascade(text, extension)

\* main.rs resolves inline, without the override table.
main_detect_syntax(text, path) == EngineCascade(text, Extension(path))

(***************************************************************************)
(* The run: highlight_content (lib.rs) and main (main.rs).                 *)
(***************************************************************************)
Ok(v) == [kind |-> "Ok", msg |-> "", arg |-> "", value |-> v]
Err(m, a) == [kind |-> "Err", msg |-> m, arg |-> a, value |-> <<>>]
NoRet == [kind |-> "None", msg |-> "", arg |-> "", value |-> <<>>]

ThemeNotFound == "Theme not found"
SyntaxNotFound == "Syntax not found"
HighlightFailed == "Failed to highlight line"
FileNotFound == "File not found"
ReadFailed == "Failed to read file"

\* The file at a path: absent, present but not readable as text (a directory,
\* invalid UTF-8), or a text.  highlight_content does not touch the file system.
NoFile == [state |-> "unused", text |-> <<>>]
Missing == [state |-> "missing", text |-> <<>>]
Unreadable == [state |-> "unreadable", text |-> <<>>]
TextFile(c) == [state |-> "text", text |-> c]
Files == {Missing, Unreadable} \cup {TextFile(c) : c \in Contents}

DefaultTheme == "base16-ocean.dark"

\* Spellings of table keys with upper-case letters.
UpperExts == {<<"P", "Y">>, <<"P", "y">>, <<"H">>, <<"C", "F", "G">>, <<"S", "H">>}
Exts == DOMAIN get_custom_mappings \cup UpperExts \cup {<<"t", "x", "t">>, <<"z", "z">>, <<"m">>}
Paths ==
    {<<"a", ".">> \o e : e \in Exts}
    \cup {<<"M", "a", "k", "e", "f", "i", "l", "e">>, <<".", "s", "h">>, <<"a", ".">>, <<"d", ".", "p", "y", "/", "a">>, <<"d", "/", "a", ".", "r", "s">>, <<"a", ".", "p", "y", ".", "h">>,
          <<"a", ".", "t", "a", "r", ".", "g", "z">>, <<"a", ".", "p", "y", "/">>, <<"a", ".", "p", "y", "/", "/">>, <<"d", "/", "a", ".", "p", "y", "/", ".">>, <<"d", "/">>, <<".", ".">>}
ThemeArgs == {DefaultTheme, "does-not-exist"}
SyntaxArgs == {None, Some("Python"), Some("Bash")}
Configs == [theme : ThemeArgs, show_line_numbers : BOOLEAN, force_syntax : SyntaxArgs]

Init ==
    /\ prog = "lib"
    /\ file = NoFile
    /\ content = <<>>
    /\ file_path = <<>>
    /\ config = [theme |-> DefaultTheme, show_line_numbers |-> FALSE, force_syntax |-> None]
    /\ pc = "idle"
    /\ theme = None
    /\ syntax = None
    /\ h = None
    /\ line_num = 0
    /\ result = <<>>
    /\ stdout = <<>>
    /\ ret = NoRet
    /\ created = 0
    /\ calls = 0

\* A caller invokes highlight_content with a content.
Call ==
    /\ pc = "idle"
    /\ \E c \in Contents, f \in Paths, cfg \in Configs :
        /\ content' = c
        /\ file_path' = f
        /\ config' = cfg
    /\ prog' = "lib"
    /\ file' = NoFile
    /\ pc' = "theme"
    /\ UNCHANGED <<theme, syntax, h, line_num, result, stdout, ret, created, calls>>

\* A caller invokes highlight_file, or the program is started, on a path.
CallOnFile ==
    /\ pc = "idle"
    /\ \E p \in {"file", "main"}, fl \in Files, f \in Paths, cfg \in Configs :
        /\ prog' = p
        /\ file' = fl
        /\ file_path' = f
        /\ config' = cfg
        /\ pc' = IF p = "main" THEN "exists" ELSE "read"
    /\ UNCHANGED <<content, theme, syntax, h, line_num, result, stdout, ret, created, calls>>

inputs == <<prog, file, content, file_path, config>>

\* main: Path::new(&args.file).exists()
CheckExistsOk ==
    /\ pc = "exists"
    /\ file.state # "missing"
    /\ pc' = "read"
    /\ UNCHANGED <<inputs, theme, syntax, h, line_num, result, stdout, ret, created, calls>>

CheckExistsErr ==
    /\ pc = "exists"
    /\ file.state = "missing"
    /\ ret' = Err(FileNotFound, file_path)
    /\ pc' = "done"
    /\ UNCHANGED <<inputs, theme, syntax, h, line_num, result, stdout, created, calls>>

\* read_to_string(file_path)
ReadOk ==
    /\ pc = "read"
    /\ file.state = "text"
    /\ content' = file.text
    /\ pc' = "theme"
    /\ UNCHANGED <<prog, file, file_path, config, theme, syntax, h, line_num, result,
                   stdout, ret, created, calls>>

ReadErr ==
    /\ pc = "read"
    /\ file.state # "text"
    /\ ret' = Err(ReadFailed, file_path)
    /\ pc' = "done"
    /\ UNCHANGED <<inputs, theme, syntax, h, line_num, result, stdout, created, calls>>

\* A plausible slip: substitute the default theme for a missing one.
find_theme_or_default(name) == OrElse(themes_get(name), Some(DefaultTheme))

find_theme(name) == themes_get(name)

LookupThemeOk ==
    /\ pc = "theme"
    /\ IsSome(find_theme(config.theme))
    /\ theme' = find_theme(config.theme)
    /\ pc' = "syntax"
    /\ UNCHANGED <<inputs, syntax, h, line_num, result, stdout, ret, created, calls>>

LookupThemeErr ==
    /\ pc = "theme"
    /\ ~IsSome(find_theme(config.theme))
    /\ ret' = Err(ThemeNotFound, config.theme)
    /\ pc' = "done"
    /\ UNCHANGED <<inputs, theme, syntax, h, line_num, result, stdout, created, calls>>

\* A plausible slip: fall back to plain text when the forced name is unknown.
forced_syntax_or_plain(name) ==
    OrElse(find_syntax_by_name(name), Some(find_syntax_plain_text))

forced_syntax(name) == find_syntax_by_name(name)

ResolveForcedOk ==
    /\ pc = "syntax"
    /\ IsSome(config.force_syntax)
    /\ IsSome(forced_syntax(Unwrap(config.force_syntax)))
    /\ syntax' = forced_syntax(Unwrap(config.force_syntax))
    /\ pc' = "new"
    /\ UNCHANGED <<inputs, theme, h, line_num, result, stdout, ret, created, calls>>

ResolveForcedErr ==
    /\ pc = "syntax"
    /\ IsSome(config.force_syntax)
    /\ ~IsSome(forced_syntax(Unwrap(config.force_syntax)))
    /\ ret' = Err(SyntaxNotFound, Unwrap(config.force_syntax))
    /\ pc' = "done"
    /\ UNCHANGED <<inputs, theme, syntax, h, line_num, result, stdout, created, calls>>

ResolveDetectLib ==
    /\ pc = "syntax"
    /\ prog # "main"
    /\ ~IsSome(config.force_syntax)
    /\ syntax' = Some(detect_syntax(content, file_path))
    /\ pc' = "new"
    /\ UNCHANGED <<inputs, theme, h, line_num, result, stdout, ret, created, calls>>

ResolveDetectMain ==
    /\ pc = "syntax"
    /\ prog = "main"
    /\ ~IsSome(config.force_syntax)
    /\ syntax' = Some(main_detect_syntax(content, file_path))
    /\ pc' = "new"
    /\ UNCHANGED <<inputs, theme, h, line_num, result, stdout, ret, created, calls>>

\* The parse state is opaque; it is modelled by what determines it: the lines
\* tokenized since it was created.
FreshParseState == <<>>

\* HighlightLines::new(syntax, theme)
NewHighlightLines ==
    /\ pc = "new"
    /\ h' = Some(FreshParseState)
    /\ created' = created + 1
    /\ pc' = "loop"
    /\ UNCHANGED <<inputs, theme, syntax, line_num, result, stdout, ret, calls>>

Lines == LinesWithEndings(content)

\* Plausible slips of the loop body, used to test the properties below.
next_state_reset(state, line) == <<line>>
line_number_prefix_zero_based(n) == [number |-> n, sep |-> " | "]

\* h.highlight_line(line, ..): the state after the line.
next_state(state, line) == Append(state, line)

\* format!("{:4} | ", line_num + 1)
line_number_prefix(n) == [number |-> n + 1, sep |-> " | "]

\* as_24_bit_terminal_escaped(ranges): the ranges of a line are decided by the
\* grammar, the theme, the state before the line and the line.
escaped(syn, thm, state, line) ==
    [syntax |-> syn, theme |-> thm, state |-> state, text |-> line]

\* What one iteration appends to the output.
rendered(show, n, syn, thm, state, line) ==
    (IF show THEN <<line_number_prefix(n)>> ELSE <<>>)
        \o <<escaped(syn, thm, state, line)>>

HighlightLineOk ==
    /\ pc = "loop"
    /\ line_num < Len(Lines)
    /\ LET line == Lines[line_num + 1]
           out == rendered(config.show_line_numbers, line_num,
                           Unwrap(syntax), Unwrap(theme), Unwrap(h), line)
       IN  /\ h' = Some(next_state(Unwrap(h), line))
           /\ IF prog # "main"
              THEN result' = result \o out /\ stdout' = stdout
              ELSE stdout' = stdout \o out /\ result' = result
    /\ calls' = calls + 1
    /\ line_num' = line_num + 1
    /\ UNCHANGED <<inputs, pc, theme, syntax, ret, created>>

\* A plausible slip: hand the text built so far back on a failure.
HighlightLineErrPartial ==
    /\ pc = "loop"
    /\ line_num < Len(Lines)
    /\ calls' = calls + 1
    /\ ret' = Ok(result)
    /\ pc' = "done"
    /\ UNCHANGED <<inputs, theme, syntax, h, line_num, result, stdout, created>>

\* highlight_line returns an error: "?" leaves the function at once.
HighlightLineErr ==
    /\ pc = "loop"
    /\ line_num < Len(Lines)
    /\ calls' = calls + 1
    /\ ret' = Err(HighlightFailed, "")
    /\ pc' = "done"
    /\ UNCHANGED <<inputs, theme, syntax, h, line_num, result, stdout, created>>

\* The iterator is exhausted: Ok(result) in the library, Ok(()) in main.
Finish ==
    /\ pc = "loop"
    /\ line_num = Len(Lines)
    /\ ret' = IF prog # "main" THEN Ok(result) ELSE Ok(<<>>)
    /\ pc' = "done"
    /\ UNCHANGED <<inputs, theme, syntax, h, line_num, result, stdout, created, calls>>

\* The caller takes the Result; the locals of the run are gone.
Return ==
    /\ pc = "done"
    /\ prog' = "lib"
    /\ file' = NoFile
    /\ content' = <<>>
    /\ file_path' = <<>>
    /\ config' = [theme |-> DefaultTheme, show_line_numbers |-> FALSE, force_syntax |-> None]
    /\ pc' = "idle"
    /\ theme' = None
    /\ syntax' = None
    /\ h' = None
    /\ line_num' = 0
    /\ result' = <<>>
    /\ stdout' = <<>>
    /\ ret' = NoRet
    /\ created' = 0
    /\ calls' = 0

Next ==
    \/ Call
    \/ CallOnFile
    \/ CheckExistsOk
    \/ CheckExistsErr
    \/ ReadOk
    \/ ReadErr
    \/ LookupThemeOk
    \/ LookupThemeErr
    \/ ResolveForcedOk
    \/ ResolveForcedErr
    \/ ResolveDetectLib
    \/ ResolveDetectMain
    \/ NewHighlightLines
    \/ HighlightLineOk
    \/ HighlightLineErr
    \/ Finish
    \/ Return

Spec == Init /\ [][Next]_vars

(***************************************************************************)
(* Properties.                                                             *)
(***************************************************************************)
Forced == IsSome(config.force_syntax)
ForcedName == Unwrap(config.force_syntax)
Ext == Extension(file_path)
Resolved == IsSome(syntax)
\* highlight_content is running, called directly or by highlight_file.
InLib == prog # "main"
\* The content is at hand: the run is at or past the theme lookup.
Started == pc \notin {"idle", "exists", "read"} /\ ret.msg \notin {FileNotFound, ReadFailed}
AutoLib == InLib /\ ~Forced /\ Resolved
NoFirstLineMarker == ~IsSome(find_syntax_by_first_line(content))
OverrideHits == Ext \in DOMAIN get_custom_mappings /\ get_custom_mappings[Ext] \in SyntaxNames

\* The text written so far, and the text the caller ends up with.
Output == IF InLib THEN result ELSE stdout
Delivered == IF InLib THEN ret.value ELSE stdout

\* The rendering of the first k lines, each tokenized in the state left by
\* the lines before it.
RECURSIVE RenderUpTo(_)
RenderUpTo(k) ==
    IF k = 0 THEN <<>>
    ELSE RenderUpTo(k - 1)
            \o rendered(config.show_line_numbers, k - 1, Unwrap(syntax), Unwrap(theme),
                        SubSeq(Lines, 1, k - 1), Lines[k])

IsPrefix(item) == "number" \in DOMAIN item
NumbersOf(out) ==
    LET pre == SelectSeq(out, IsPrefix) IN [i \in 1..Len(pre) |-> pre[i].number]

\* C1 as stated: with a forced syntax, a known name is the grammar used and an
\* unknown name makes the call return "Syntax not found".
C1_ForcedAsStated ==
    (InLib /\ Started /\ Forced) =>
        /\ Resolved => syntax = Some(ForcedName)
        /\ (pc = "done" /\ ForcedName \notin SyntaxNames) =>
                ret = Err(SyntaxNotFound, ForcedName)

\* C1 amended: with a forced syntax the grammar used is never any other than
\* the one named (for every path and content); a run whose theme exists uses
\* exactly that grammar when the name is known and returns "Syntax not found",
\* without resolving a grammar or tokenizing, when it is not.
C1_ForcedSyntax ==
    (Started /\ Forced) =>
        /\ Resolved => (syntax = Some(ForcedName) /\ ForcedName \in SyntaxNames)
        /\ (pc \in {"new", "loop"}) => Resolved
        /\ (pc = "done" /\ config.theme \in theme_set /\ ForcedName \in SyntaxNames) =>
                Resolved
        /\ (pc = "done" /\ config.theme \in theme_set /\ ForcedName \notin SyntaxNames) =>
                ret = Err(SyntaxNotFound, ForcedName)
        /\ ForcedName \notin SyntaxNames => (h = None /\ calls = 0 /\ Output = <<>>)

C1_Witness ==
    /\ pc = "done"
    /\ prog = "lib"
    /\ config.force_syntax = Some("Bash")
    /\ file_path = <<"a", ".", "s", "h">>
    /\ ret = Err(SyntaxNotFound, "Bash")

\* C2 as stated: an extension of the override table, without forced syntax and
\* without first-line marker, resolves to the grammar named by the table.
C2_OverrideYieldsMapped ==
    (AutoLib /\ Ext \in DOMAIN get_custom_mappings /\ NoFirstLineMarker) =>
        syntax = Some(get_custom_mappings[Ext])

\* C3: a theme that is not in the catalog ends the run with "Theme not found"
\* before a grammar is resolved, a parse state created or a line tokenized,
\* whatever the content, the path and the forced syntax; no theme is used.
C3_ThemeNotFoundFirst ==
    (Started /\ config.theme \notin theme_set) =>
        /\ pc \in {"theme", "done"}
        /\ theme = None /\ syntax = None /\ h = None
        /\ created = 0 /\ calls = 0 /\ line_num = 0
        /\ result = <<>> /\ stdout = <<>>
        /\ pc = "done" => ret = Err(ThemeNotFound, config.theme)

C3_Witness ==
    /\ pc = "done"
    /\ prog = "lib"
    /\ config.force_syntax = Some("Bash")
    /\ content # <<>>
    /\ ret = Err(ThemeNotFound, "does-not-exist")

\* C4: without forced syntax resolution never fails: it yields a grammar of the
\* catalog, and the plain-text grammar when neither table knows the extension
\* and the content has no first-line marker.
C4_AutoTotal ==
    (Started /\ ~Forced) =>
        /\ ret.msg # SyntaxNotFound
        /\ pc \in {"new", "loop"} => Resolved
        /\ (pc = "done" /\ config.theme \in theme_set) => Resolved
        /\ Resolved => Unwrap(syntax) \in SyntaxNames
        /\ ( /\ Resolved
             /\ Ext \notin DOMAIN get_custom_mappings
             /\ ~IsSome(find_syntax_by_extension(Ext))
             /\ NoFirstLineMarker ) => syntax = Some(find_syntax_plain_text)

C4_Witness ==
    /\ prog = "lib"
    /\ pc = "loop"
    /\ ~Forced
    /\ file_path = <<"a", ".", "z", "z">>
    /\ syntax = Some("Plain Text")

\* Two paths that differ only in the letter case of the extension.
SameUpToExtensionCase(p, q) ==
    LET n == Len(Extension(p))
    IN  /\ Len(p) = Len(q)
        /\ IsSome(PathExtension(p)) /\ IsSome(PathExtension(q))
        /\ Len(Extension(q)) = n
        /\ SubSeq(p, Len(p) - n + 1, Len(p)) = Extension(p)
        /\ SubSeq(q, Len(q) - n + 1, Len(q)) = Extension(q)
        /\ SubSeq(p, 1, Len(p) - n) = SubSeq(q, 1, Len(q) - n)
        /\ ToLower(Extension(p)) = ToLower(Extension(q))

\* C5 as stated: the extension is lower-cased before the override table is
\* consulted, so paths differing only in the case of the extension resolve to
\* the same grammar.
C5_LowerCasedExtension ==
    AutoLib =>
        /\ syntax = Some(detect_syntax_lowercased(content, file_path))
        /\ \A q \in Paths :
                SameUpToExtensionCase(file_path, q) =>
                    detect_syntax(content, q) = Unwrap(syntax)

\* C6: with show_line_numbers the prefixes written so far are 1, 2, .., one in
\* front of each line rendered, and a successful run over N lines has written
\* exactly 1..N (nothing at all for N = 0).
C6_LineNumbers ==
    config.show_line_numbers =>
        /\ NumbersOf(Output) = [i \in 1..line_num |-> i]
        /\ Len(Output) = 2 * line_num
        /\ \A i \in 1..line_num : IsPrefix(Output[2 * i - 1]) /\ ~IsPrefix(Output[2 * i])
        /\ (pc = "done" /\ ret.kind = "Ok") =>
                /\ NumbersOf(Delivered) = [i \in 1..Len(Lines) |-> i]
                /\ Len(Lines) = 0 => Delivered = <<>>

C6_Witness ==
    /\ pc = "done"
    /\ ret.kind = "Ok"
    /\ config.show_line_numbers
    /\ prog = "lib"
    /\ Len(Lines) = 2
    /\ NumbersOf(ret.value) = <<1, 2>>

\* C7 as stated: a finished run delivers either the rendering of all lines or,
\* on an error, none of the rendered text.
C7_AllOrNothingAsStated ==
    pc = "done" =>
        IF ret.kind = "Err" THEN Delivered = <<>>
        ELSE Delivered = RenderUpTo(Len(Lines))

\* C7 amended: a failure at line k ends the run at line k: no later line is
\* tokenized and nothing is retried.  highlight_content then returns only the
\* error, and otherwise the rendering of all N lines; main, which prints each
\* line as it is rendered, has written lines 1..k-1 before it reports the error.
C7_AllOrNothing ==
    (pc = "done" /\ Resolved) =>
        /\ ret.kind = "Ok" =>
            /\ line_num = Len(Lines) /\ calls = Len(Lines)
            /\ Delivered = RenderUpTo(Len(Lines))
        /\ ret.kind = "Err" =>
            /\ ret.msg = HighlightFailed
            /\ line_num < Len(Lines) /\ calls = line_num + 1
            /\ h = Some(SubSeq(Lines, 1, line_num))
            /\ InLib => Delivered = <<>>
            /\ prog = "main" => Delivered = RenderUpTo(line_num)

C7_Witness ==
    /\ pc = "done"
    /\ prog = "lib"
    /\ ret = Err(HighlightFailed, "")
    /\ line_num = 1
    /\ result # <<>>

\* C8: a run creates its parse state once, before the first line; the state
\* the tokenizer gets for line n+1 is the one left by lines 1..n, tokenized in
\* order and once each; a run starts without a state.
C8_ParseStateThreaded ==
    /\ pc \in {"idle", "exists", "read", "theme", "syntax", "new"} => (h = None /\ created = 0 /\ calls = 0)
    /\ pc = "loop" => (created = 1 /\ calls = line_num)
    /\ created \in {0, 1}
    /\ created = 0 => (h = None /\ calls = 0)
    /\ created = 1 =>
        /\ h = Some(SubSeq(Lines, 1, line_num))
        /\ line_num <= Len(Lines)
        /\ calls \in {line_num, line_num + 1}

C8_Witness ==
    /\ pc = "loop"
    /\ created = 1
    /\ line_num = 2
    /\ h = Some(Lines)

\* C9: automatic resolution tries the override table, the engine's extension
\* table, the first line and plain text in this order: when the extension
\* matches, the grammar resolved is the one every content resolves to
\* (compared when the grammar has just been resolved); a table entry naming
\* a grammar the catalog lacks leaves the result to the rest of the cascade.
C9_Cascade ==
    AutoLib =>
        /\ OverrideHits => syntax = Some(get_custom_mappings[Ext])
        /\ (~OverrideHits /\ IsSome(find_syntax_by_extension(Ext))) =>
                syntax = find_syntax_by_extension(Ext)
        /\ (pc = "new" /\ (OverrideHits \/ IsSome(find_syntax_by_extension(Ext)))) =>
                \A c \in Contents : detect_syntax(c, file_path) = Unwrap(syntax)
        /\ (~OverrideHits /\ ~IsSome(find_syntax_by_extension(Ext))) =>
                syntax = Some(UnwrapOrElse(find_syntax_by_first_line(content),
                                           find_syntax_plain_text))

C9_Witness ==
    /\ AutoLib
    /\ pc = "loop"
    /\ file_path = <<"a", ".", "s", "h">>
    /\ content # <<>> /\ content[1] = Shebang
    /\ syntax = Some("Bourne Again Shell (bash)")

\* C10 as stated: main resolves the grammar highlight_content resolves for the
\* same path, content and options.
C10_MainMatchesLib ==
    (prog = "main" /\ Resolved) =>
        syntax = (IF Forced THEN forced_syntax(ForcedName)
                  ELSE Some(detect_syntax(content, file_path)))
====
